---- MODULE Spec2Model ----
(***************************************************************************)
(* Model of data-analysis/power_analysis_calculator.py                     *)
(* (class PowerAnalysisCalculator).                                        *)
(*                                                                         *)
(* Number representation.  The program computes in floating point; the     *)
(* model computes the same expressions exactly, over integers:             *)
(*   - baseline_rate, power and alpha are held in percent (5 is 0.05);     *)
(*   - z_alpha_2 and z_beta are held in hundredths (196 is 1.96);          *)
(*   - an MDE is held in percent (mde_percent m is the decimal m/100), so  *)
(*     numerator/denominator of calculate_sample_size is                   *)
(*       2*(za+zb)^2*P*(100-P) / (10000*m^2)   with za, zb, P, m integers; *)
(*   - an unrounded real is a fraction [num, den];                         *)
(*   - a value rounded by round(x, 2) is held in hundredths (700 is 7.0).  *)
(***************************************************************************)
EXTENDS Integers, Sequences, FiniteSets, TLC

\* ---------------------------------------------------------------- bounds
MaxLen == 2          \* longest explicit mde_range passed to a sweep
MaxMutations == 1    \* attribute assignments per calculator (SpecMut only)

\* ---------------------------------------------------------------- inputs
BaselineRates == {0, 5}              \* percent; 0 is outside (0,1)
Populations == {0, 22, 2554}         \* 0 is not positive
VariantCounts == {1, 2}              \* 1 is below 2
Powers == {25, 80}                   \* percent
Alphas == {5, 50, 100}               \* percent; 100 (alpha = 1) is outside (0,1)
SweepMDEs == {-5, 5, 10}             \* mde_percent values of explicit ranges
CallMDEs == {-5, 0, 5}               \* arguments of direct calculate_sample_size calls

DefaultRange == [i \in 1..30 |-> i]

RECURSIVE SeqsUpTo(_, _)
SeqsUpTo(S, n) ==
    IF n = 0 THEN {<< >>}
    ELSE LET shorter == SeqsUpTo(S, n - 1)
         IN  shorter \cup {Append(s, x) : s \in {t \in shorter : Len(t) = n - 1}, x \in S}

\* Explicit ranges list each MDE at most once.
NoRepeat(s) == \A i, j \in 1..Len(s) : i # j => s[i] # s[j]

Ranges == {s \in SeqsUpTo(SweepMDEs, MaxLen) : NoRepeat(s)} \cup {DefaultRange}

\* ---------------------------------------------------------------- state
VARIABLES
    constructed,         \* a calculator object exists
    baseline_rate, monthly_population, num_variants, power, alpha,
    z_alpha_2, z_beta,
    has_results,         \* hasattr(self, 'results_df')
    results_df,          \* the cached table (sequence of records)
    lastCall,            \* [op, mde, range]: the last operation invoked
    returned,            \* [kind, size, recs]: what it returned; kind "results_df"
                         \* is the table itself (return self.results_df, line 145)
    error,               \* the exception it raised, or "none"
    firstSweep,          \* history: first successful sweep of this calculator
    mutations            \* attribute assignments done so far

vars == << constructed, baseline_rate, monthly_population, num_variants, power,
           alpha, z_alpha_2, z_beta, has_results, results_df, lastCall,
           returned, error, firstSweep, mutations >>

params == << baseline_rate, monthly_population, num_variants, power, alpha,
             z_alpha_2, z_beta >>

\* ---------------------------------------------------------------- values
NoRec == [present |-> FALSE, mde |-> 0, duration |-> 0, sample_size |-> 0]
NoRecs == [quick_test |-> NoRec, standard_test |-> NoRec, sensitive_test |-> NoRec]
NoReturn == [kind |-> "none", size |-> 0, recs |-> NoRecs]
NoCall == [op |-> "none", mde |-> 0, range |-> << >>]
NoFirst == [set |-> FALSE, range |-> << >>, table |-> << >>, other |-> FALSE]

\* ---------------------------------------------------------------- helpers
\* stats.norm.ppf at the probabilities the inputs above produce, in hundredths.
\* ppf(1 - alpha/2): alpha = 0.05 -> 1.959964, alpha = 0.5 -> ppf(0.75) =
\* 0.674490, alpha = 1 -> ppf(0.5) = 0.
NormPpfUpper(a) == IF a = 5 THEN 196 ELSE IF a = 50 THEN 67 ELSE 0
\* ppf(power): 0.25 -> -0.674490 (exactly -ppf(0.75)), 0.8 -> 0.841621.
NormPpf(pw) == IF pw = 25 THEN -67 ELSE 84

\* np.ceil of the non-negative quotient n/d (d > 0).
CeilFloor(n, d) == n \div d
Ceil(n, d) == IF n % d = 0 THEN n \div d ELSE (n \div d) + 1

\* round(x, 2) of the non-negative real n/d, in hundredths (round half to even).
Round2(n, d) ==
    LET q == (100 * n) \div d
        r == (100 * n) % d
    IN  IF 2 * r < d THEN q
        ELSE IF 2 * r > d THEN q + 1
        ELSE IF q % 2 = 0 THEN q ELSE q + 1

\* x <= k for the computed value x = [num, den, up] with den > 0: the exact
\* fraction num/den, which the double arithmetic rounded up when x.up holds.
Leq(x, k) == x.num < k * x.den \/ (x.num = k * x.den /\ ~x.up)


\* ---------------------------------------------------------------- calculate_sample_size
\* numerator / denominator (line 79) as a fraction.  numerator is in units of
\* 10^-8 and denominator (mde^2) in units of 10^-4, so the quotient is
\* numer / (10000 * denom).
DivideSwapped(numer, denom) == [num |-> 10000 * denom, den |-> numer]
Divide(numer, denom) == [num |-> numer, den |-> 10000 * denom]

\* Returns [error, size].  A zero denominator gives inf (nan when the numerator
\* is zero too), and int() of it raises OverflowError (ValueError).
calculate_sample_size(mde) ==
    LET p == baseline_rate
        numerator == 2 * (z_alpha_2 + z_beta) * (z_alpha_2 + z_beta) * p * (100 - p)
        denominator == mde * mde
        q == Divide(numerator, denominator)
    IN  IF q.den = 0
        THEN [error |-> IF q.num = 0 THEN "ValueError" ELSE "OverflowError", size |-> 0]
        ELSE [error |-> "none", size |-> Ceil(q.num, q.den)]

\* ---------------------------------------------------------------- calculate_power_analysis
\* (total_sample_size / monthly_population) * 100.  On a threshold the quotient
\* is 0.25, 0.5 or 0.75, which doubles hold exactly.
PopulationSplitFraction(total, pop) == [num |-> total, den |-> pop, up |-> FALSE]
PopulationSplitPercent(total, pop) == [num |-> 100 * total, den |-> pop, up |-> FALSE]

\* The pairs (total, population), over the populations of this model, whose
\* exact duration is on a threshold and whose double quotient
\* total / (population / 30) comes out above it: 22 / (22 / 30) is
\* 30.000000000000004.  (2554 / (2554 / 30) is 29.999999999999996; off a
\* threshold the exact value is at least 1/population away from it.)
RoundedUp == {<< 22, 22 >>}

\* total_sample_size / (monthly_population / 30)
DurationDays(total, pop) ==
    [num |-> 30 * total, den |-> pop, up |-> << total, pop >> \in RoundedUp]

DurationWeeks(days) == [num |-> days.num, den |-> 7 * days.den, up |-> FALSE]

Feasibility(days) ==
    IF Leq(days, 7) THEN "Very Short"
    ELSE IF Leq(days, 14) THEN "Short"
    ELSE IF Leq(days, 30) THEN "Moderate"
    ELSE "Long"

TrafficAssessment(split) ==
    IF Leq(split, 25) THEN "Excellent"
    ELSE IF Leq(split, 50) THEN "Good"
    ELSE IF Leq(split, 75) THEN "Challenging"
    ELSE "Insufficient Traffic"

MakeRecord(mde_percent, size, total, split, days, weeks) ==
    [ MDE_Percent |-> mde_percent,
      MDE_Decimal |-> [num |-> mde_percent, den |-> 100],
      Sample_Size_Per_Variant |-> size,
      Total_Sample_Size |-> total,
      Population_Split_Percent |-> Round2(split.num, split.den),
      Duration_Days |-> Round2(days.num, days.den),
      Duration_Weeks |-> Round2(weeks.num, weeks.den),
      Feasibility |-> Feasibility(days),
      Traffic_Assessment |-> TrafficAssessment(split) ]

NoRow == MakeRecord(0, 0, 0, PopulationSplitPercent(0, 1), DurationDays(0, 1),
                    DurationWeeks(DurationDays(0, 1)))

\* Lines 104-142 for the sample size s = [error, size] that line 103 produced.
LoopRest(mde_percent, s, total_sample_size) ==
    IF s.error # "none" THEN [error |-> s.error, row |-> NoRow]
    ELSE IF monthly_population = 0
         THEN [error |-> "ZeroDivisionError", row |-> NoRow]
    ELSE [error |-> "none",
          row |-> MakeRecord(mde_percent, s.size, total_sample_size,
                             PopulationSplitPercent(total_sample_size, monthly_population),
                             DurationDays(total_sample_size, monthly_population),
                             DurationWeeks(DurationDays(total_sample_size,
                                                        monthly_population)))]

\* One iteration of the loop body (lines 100-142): [error, row].
LoopBody(mde_percent) ==
    LoopRest(mde_percent, calculate_sample_size(mde_percent),
             calculate_sample_size(mde_percent).size * num_variants)

\* results = []  (line 97)
InitialResultsKept == IF has_results THEN results_df ELSE << >>
InitialResults == << >>

\* The for loop (lines 99-142): every element's record is appended in range
\* order; the first element whose body raises ends the call with that error.
SweepCollect(results, bodies) ==
    LET failed == {k \in DOMAIN bodies : bodies[k].error # "none"}
    IN  IF failed = {}
        THEN [error |-> "none",
              table |-> results \o [k \in DOMAIN bodies |-> bodies[k].row]]
        ELSE [error |-> bodies[CHOOSE k \in failed : \A j \in failed : k <= j].error,
              table |-> << >>]

SweepLoop(results, mde_range) ==
    SweepCollect(results, [k \in 1..Len(mde_range) |-> LoopBody(mde_range[k])])

\* The table calculate_power_analysis(mde_range) builds: [error, table].
SweepTable(mde_range) == SweepLoop(InitialResults, mde_range)

\* ---------------------------------------------------------------- get_recommendations
Pick(r) == [present |-> TRUE, mde |-> r.MDE_Percent, duration |-> r.Duration_Days,
            sample_size |-> r.Total_Sample_Size]

FeasibleRows(table) ==
    SelectSeq(table, LAMBDA r : r.Duration_Days <= 3000
                                /\ r.Population_Split_Percent <= 5000)

Recommend(table) ==
    LET feasible == FeasibleRows(table)
        quick == SelectSeq(feasible, LAMBDA r : r.Duration_Days <= 700)
        standard == SelectSeq(feasible, LAMBDA r : r.Duration_Days > 700
                                                   /\ r.Duration_Days <= 2100)
        mid_idx == Len(standard) \div 2
    IN  [ quick_test |-> IF quick # << >> THEN Pick(quick[Len(quick)]) ELSE NoRec,
          standard_test |-> IF standard # << >> THEN Pick(standard[mid_idx + 1]) ELSE NoRec,
          sensitive_test |-> IF feasible # << >> THEN Pick(feasible[1]) ELSE NoRec ]

\* ---------------------------------------------------------------- operations
Init ==
    /\ constructed = FALSE
    /\ baseline_rate = 0 /\ monthly_population = 0 /\ num_variants = 0
    /\ power = 0 /\ alpha = 0 /\ z_alpha_2 = 0 /\ z_beta = 0
    /\ has_results = FALSE
    /\ results_df = << >>
    /\ lastCall = NoCall
    /\ returned = NoReturn
    /\ error = "none"
    /\ firstSweep = NoFirst
    /\ mutations = 0

\* PowerAnalysisCalculator(baseline_rate, monthly_population, num_variants, power, alpha)
Construct(br, pop, nv, pw, a) ==
    /\ ~constructed
    /\ constructed' = TRUE
    /\ baseline_rate' = br
    /\ monthly_population' = pop
    /\ num_variants' = nv
    /\ power' = pw
    /\ alpha' = a
    /\ z_alpha_2' = NormPpfUpper(a)
    /\ z_beta' = NormPpf(pw)
    /\ lastCall' = [op |-> "__init__", mde |-> 0, range |-> << >>]
    /\ returned' = NoReturn
    /\ error' = "none"
    /\ UNCHANGED << has_results, results_df, mutations >>

\* calculator.calculate_sample_size(mde), mde = m/100
CalculateSampleSize(m) ==
    /\ constructed
    /\ LET s == calculate_sample_size(m)
       IN  /\ error' = s.error
           /\ returned' = IF s.error = "none"
                          THEN [NoReturn EXCEPT !.kind = "size", !.size = s.size]
                          ELSE NoReturn
    /\ lastCall' = [op |-> "calculate_sample_size", mde |-> m, range |-> << >>]
    /\ UNCHANGED << constructed, params, has_results, results_df, mutations >>

\* self.results_df = pd.DataFrame(results)  (line 144)
StoreResults(table) ==
    /\ results_df' = table
    /\ has_results' = TRUE

\* Lines 97-145 once the loop has ended with t = [error, table].
FinishSweep(t) ==
    IF t.error # "none"
    THEN /\ error' = t.error
         /\ returned' = NoReturn
         /\ UNCHANGED << has_results, results_df >>
    ELSE /\ error' = "none"
         /\ returned' = [NoReturn EXCEPT !.kind = "results_df"]
         /\ StoreResults(t.table)

\* calculator.calculate_power_analysis(mde_range); None is DefaultRange
CalculatePowerAnalysis(mde_range) ==
    /\ constructed
    /\ FinishSweep(SweepTable(mde_range))
    /\ lastCall' = [op |-> "calculate_power_analysis", mde |-> 0, range |-> mde_range]
    /\ UNCHANGED << constructed, params, mutations >>

\* if not hasattr(self, 'results_df'): self.calculate_power_analysis(), where
\* that call ended with t = [error, table]
LazySweep(t) ==
    IF t.error # "none"
    THEN /\ error' = t.error
         /\ UNCHANGED << has_results, results_df >>
    ELSE /\ error' = "none"
         /\ StoreResults(t.table)

\* calculator.display_results(top_n): the lazy sweep, then printing
DisplayResults ==
    /\ constructed
    /\ IF has_results
       THEN /\ error' = "none"
            /\ UNCHANGED << has_results, results_df >>
       ELSE LazySweep(SweepTable(DefaultRange))
    /\ returned' = NoReturn
    /\ lastCall' = [op |-> "display_results", mde |-> 0, range |-> << >>]
    /\ UNCHANGED << constructed, params, mutations >>

\* Lines 198-240 on the table just swept by the lazy call.
RecommendFresh(t) ==
    /\ LazySweep(t)
    /\ returned' = IF t.error # "none" THEN NoReturn
                   ELSE [NoReturn EXCEPT !.kind = "recs", !.recs = Recommend(t.table)]

\* calculator.get_recommendations().  A table built from an empty range has no
\* columns, and selecting 'Duration_Days' from it raises KeyError.
GetRecommendations ==
    /\ constructed
    /\ IF has_results
       THEN /\ UNCHANGED << has_results, results_df >>
            /\ IF results_df = << >>
               THEN /\ error' = "KeyError"
                    /\ returned' = NoReturn
               ELSE /\ error' = "none"
                    /\ returned' = [NoReturn EXCEPT !.kind = "recs",
                                                    !.recs = Recommend(results_df)]
       ELSE RecommendFresh(SweepTable(DefaultRange))
    /\ lastCall' = [op |-> "get_recommendations", mde |-> 0, range |-> << >>]
    /\ UNCHANGED << constructed, params, mutations >>

\* calculator.<attribute> = value: the five parameters are plain public
\* attributes (lines 51-55); assigning one recomputes nothing.
SetAttribute(name, value) ==
    /\ constructed
    /\ mutations < MaxMutations
    /\ mutations' = mutations + 1
    /\ baseline_rate' = IF name = "baseline_rate" THEN value ELSE baseline_rate
    /\ monthly_population' = IF name = "monthly_population" THEN value ELSE monthly_population
    /\ num_variants' = IF name = "num_variants" THEN value ELSE num_variants
    /\ power' = IF name = "power" THEN value ELSE power
    /\ alpha' = IF name = "alpha" THEN value ELSE alpha
    /\ lastCall' = [op |-> "setattr", mde |-> 0, range |-> << >>]
    /\ returned' = NoReturn
    /\ error' = "none"
    /\ UNCHANGED << constructed, z_alpha_2, z_beta, has_results, results_df >>

AttributeValues(name) ==
    IF name = "baseline_rate" THEN BaselineRates
    ELSE IF name = "monthly_population" THEN Populations
    ELSE IF name = "num_variants" THEN VariantCounts
    ELSE IF name = "power" THEN Powers
    ELSE Alphas

AttributeNames == {"baseline_rate", "monthly_population", "num_variants", "power", "alpha"}

\* History: the range and the returned table of the calculator's first
\* calculate_power_analysis call that completed, and whether a completed call
\* with another range has followed it.
RecordFirst ==
    firstSweep' =
        IF lastCall'.op = "calculate_power_analysis" /\ error' = "none"
        THEN IF ~firstSweep.set
             THEN [set |-> TRUE, range |-> lastCall'.range, table |-> results_df',
                   other |-> FALSE]
             ELSE IF lastCall'.range # firstSweep.range
                  THEN [firstSweep EXCEPT !.other = TRUE]
                  ELSE firstSweep
        ELSE firstSweep

Next ==
    \/ \E br \in BaselineRates, pop \in Populations, nv \in VariantCounts,
          pw \in Powers, a \in Alphas : Construct(br, pop, nv, pw, a) /\ RecordFirst
    \/ \E m \in CallMDEs : CalculateSampleSize(m) /\ RecordFirst
    \/ \E r \in Ranges : CalculatePowerAnalysis(r) /\ RecordFirst
    \/ DisplayResults /\ RecordFirst
    \/ GetRecommendations /\ RecordFirst

Spec == Init /\ [][Next]_vars

\* The same operations, interleaved with assignments to the parameter
\* attributes; the history of the first sweep is not kept here.
NextMut ==
    \/ \E br \in BaselineRates, pop \in Populations, nv \in VariantCounts,
          pw \in Powers, a \in Alphas :
             Construct(br, pop, nv, pw, a) /\ UNCHANGED firstSweep
    \/ \E m \in CallMDEs : CalculateSampleSize(m) /\ UNCHANGED firstSweep
    \/ \E r \in Ranges : CalculatePowerAnalysis(r) /\ UNCHANGED firstSweep
    \/ DisplayResults /\ UNCHANGED firstSweep
    \/ GetRecommendations /\ UNCHANGED firstSweep
    \/ \E name \in AttributeNames : \E v \in AttributeValues(name) :
          SetAttribute(name, v) /\ UNCHANGED firstSweep

SpecMut == Init /\ [][NextMut]_vars

\* ---------------------------------------------------------------- properties
\* The parameter ranges of the specification: rates strictly inside (0,1),
\* at least two variants, a positive population.
ValidParameters ==
    /\ baseline_rate \in 1..99
    /\ alpha \in 1..99
    /\ power \in 1..99
    /\ num_variants >= 2
    /\ monthly_population > 0

Rows == DOMAIN results_df

\* The table was swept from positive MDE percents only.
PositiveMDEs == \A i \in Rows : results_df[i].MDE_Percent > 0

\* Row i passes the filter of get_recommendations.
FeasibleRow(i) ==
    /\ results_df[i].Duration_Days <= 3000
    /\ results_df[i].Population_Split_Percent <= 5000

\* The recommendation carries row i's fields.
Carries(rec, i) ==
    /\ rec.present
    /\ rec.mde = results_df[i].MDE_Percent
    /\ rec.duration = results_df[i].Duration_Days
    /\ rec.sample_size = results_df[i].Total_Sample_Size

\* C1: construction with a parameter outside its range fails (InvalidParameter)
\* and yields no calculator, so no sweep ever divides by a zero population.
C1_InvalidParametersRejected ==
    /\ constructed => ValidParameters
    /\ error # "ZeroDivisionError"

\* C2: calculate_sample_size(mde) with mde <= 0 fails with InvalidMDE, and no
\* sweep emits a record for a non-positive MDE percent.
C2_NonPositiveMDERejected ==
    /\ (lastCall.op = "calculate_sample_size" /\ lastCall.mde <= 0)
          => error = "InvalidMDE"
    /\ \A i \in Rows : results_df[i].MDE_Percent > 0

\* C3: every record's feasibility and traffic_assessment labels are the buckets
\* of its own duration_days and population_split_percent fields, a field of
\* exactly 7, 14, 30 days or 25, 50, 75 percent taking the lower bucket.
C3_LabelsMatchStoredFields ==
    \A i \in Rows :
        LET r == results_df[i]
        IN  /\ r.Feasibility =
                 IF r.Duration_Days <= 700 THEN "Very Short"
                 ELSE IF r.Duration_Days <= 1400 THEN "Short"
                 ELSE IF r.Duration_Days <= 3000 THEN "Moderate"
                 ELSE "Long"
            /\ r.Traffic_Assessment =
                 IF r.Population_Split_Percent <= 2500 THEN "Excellent"
                 ELSE IF r.Population_Split_Percent <= 5000 THEN "Good"
                 ELSE IF r.Population_Split_Percent <= 7500 THEN "Challenging"
                 ELSE "Insufficient Traffic"

C5_SensitiveIsSmallestMDE ==
    (returned.kind = "recs" /\ ValidParameters /\ PositiveMDEs) =>
        LET F == {i \in Rows : FeasibleRow(i)}
        IN  IF F = {}
            THEN /\ ~returned.recs.quick_test.present
                 /\ ~returned.recs.standard_test.present
                 /\ ~returned.recs.sensitive_test.present
            ELSE \E i \in F :
                    /\ \A j \in F : results_df[i].MDE_Percent <= results_df[j].MDE_Percent
                    /\ Carries(returned.recs.sensitive_test, i)

\* C6 as stated: within a sweep, a larger positive MDE always has a strictly
\* smaller sample size per variant.  Stated for valid parameters whose
\* critical values do not cancel.
C6_StrictlyDecreasing ==
    (ValidParameters /\ z_alpha_2 + z_beta # 0) =>
        \A i, j \in Rows :
            (0 < results_df[i].MDE_Percent
               /\ results_df[i].MDE_Percent < results_df[j].MDE_Percent)
            => results_df[i].Sample_Size_Per_Variant > results_df[j].Sample_Size_Per_Variant

\* C6 amended: within a sweep, a larger positive MDE never has a larger sample
\* size per variant (the ceiling can make two sizes equal).
C6_NonIncreasing ==
    \A i, j \in Rows :
        (0 < results_df[i].MDE_Percent
           /\ results_df[i].MDE_Percent < results_df[j].MDE_Percent)
        => results_df[i].Sample_Size_Per_Variant >= results_df[j].Sample_Size_Per_Variant

\* A sweep of a valid parameter set in which two distinct positive MDEs have
\* the same positive sample size and two others have different ones.
C6_Witness ==
    /\ ValidParameters
    /\ \E i, j \in Rows :
          /\ 0 < results_df[i].MDE_Percent
          /\ results_df[i].MDE_Percent < results_df[j].MDE_Percent
          /\ results_df[i].Sample_Size_Per_Variant = results_df[j].Sample_Size_Per_Variant
          /\ results_df[i].Sample_Size_Per_Variant > 0
    /\ \E i, j \in Rows :
          /\ 0 < results_df[i].MDE_Percent
          /\ results_df[i].MDE_Percent < results_df[j].MDE_Percent
          /\ results_df[i].Sample_Size_Per_Variant > results_df[j].Sample_Size_Per_Variant

\* C7: a completed calculate_power_analysis call with the range of the
\* calculator's first completed call returns (as self.results_df) the table
\* that first call returned.
C7_SameRangeSameTable ==
    (lastCall.op = "calculate_power_analysis" /\ error = "none"
       /\ firstSweep.set /\ lastCall.range = firstSweep.range)
    => results_df = firstSweep.table

\* The first range swept again after a sweep of another range, both non-empty.
C7_Witness ==
    /\ lastCall.op = "calculate_power_analysis" /\ error = "none"
    /\ firstSweep.set /\ firstSweep.other
    /\ lastCall.range = firstSweep.range
    /\ results_df = firstSweep.table
    /\ results_df # << >>

\* C8 as stated: for valid parameters and mde > 0, calculate_sample_size
\* returns the least integer n with n >= 2*(z_alpha_2+z_beta)^2*p*(1-p)/mde^2,
\* and n is positive.
C8_CeilingIsPositive ==
    (lastCall.op = "calculate_sample_size" /\ lastCall.mde > 0 /\ ValidParameters)
    => /\ error = "none"
       /\ returned.kind = "size"
       /\ LET n == returned.size
              N == 2 * (z_alpha_2 + z_beta) * (z_alpha_2 + z_beta)
                     * baseline_rate * (100 - baseline_rate)
              D == 10000 * lastCall.mde * lastCall.mde
          IN  /\ n * D >= N
              /\ (n - 1) * D < N
              /\ n > 0

\* C8 amended: for valid parameters and mde > 0, calculate_sample_size returns
\* the least integer n with n >= 2*(z_alpha_2+z_beta)^2*p*(1-p)/mde^2; n is
\* never negative, and it is 0 exactly when z_alpha_2 + z_beta = 0.
C8_CeilingOfQuotient ==
    (lastCall.op = "calculate_sample_size" /\ lastCall.mde > 0 /\ ValidParameters)
    => /\ error = "none"
       /\ returned.kind = "size"
       /\ LET n == returned.size
              N == 2 * (z_alpha_2 + z_beta) * (z_alpha_2 + z_beta)
                     * baseline_rate * (100 - baseline_rate)
              D == 10000 * lastCall.mde * lastCall.mde
          IN  /\ n * D >= N
              /\ (n - 1) * D < N
              /\ n >= 0
              /\ (n = 0) <=> (z_alpha_2 + z_beta = 0)

\* A call whose exact quotient is not an integer, so that rounding up happened.
C8_Witness ==
    /\ lastCall.op = "calculate_sample_size" /\ lastCall.mde > 0 /\ ValidParameters
    /\ returned.kind = "size"
    /\ returned.size * 10000 * lastCall.mde * lastCall.mde
         > 2 * (z_alpha_2 + z_beta) * (z_alpha_2 + z_beta)
             * baseline_rate * (100 - baseline_rate)

\* C9: the table get_recommendations reads is one that a sweep with the
\* calculator's current parameters and critical values produces.  Stated for
\* valid current parameters and positive MDEs.
C9_TableMatchesCurrentParameters ==
    (lastCall.op = "get_recommendations" /\ returned.kind = "recs"
       /\ ValidParameters /\ PositiveMDEs)
    => \E r \in Ranges :
          /\ SweepTable(r).error = "none"
          /\ SweepTable(r).table = results_df

\* C10: every record passing the feasibility filter has duration_days <= 15,
\* and so has every recommendation returned.
C10_FeasibleWithinFifteenDays ==
    /\ \A i \in Rows : FeasibleRow(i) => results_df[i].Duration_Days <= 1500
    /\ returned.kind = "recs" =>
          /\ returned.recs.quick_test.present => returned.recs.quick_test.duration <= 1500
          /\ returned.recs.standard_test.present => returned.recs.standard_test.duration <= 1500
          /\ returned.recs.sensitive_test.present => returned.recs.sensitive_test.duration <= 1500

\* Recommendations whose standard pick runs longer than a week, from a table
\* that also holds records the filter rejects.
C10_Witness ==
    /\ returned.kind = "recs"
    /\ returned.recs.standard_test.present
    /\ returned.recs.standard_test.duration > 700
    /\ \E i \in Rows : ~FeasibleRow(i)

====
